---- MODULE Spec2Model ----
(***************************************************************************)
(* Conversation controller of the insurance bot: the per-user session      *)
(* (UserSession), the session store, the step registry (stepConfigs), the  *)
(* webhook router with its three gates, the 3-tier document pipeline       *)
(* (processDocument), the 2-tier confirmation resolver                     *)
(* (handleConfirmation) and the policy dispatcher (sendPolicy).            *)
(*                                                                         *)
(* One webhook invocation is a handler record that moves from one await    *)
(* on a collaborator (chat transport, agent, extraction service, PDF       *)
(* renderer) to the next; the code between two awaits runs atomically, as  *)
(* it does on the JavaScript event loop.  Collaborator outcomes are        *)
(* nondeterministic.                                                       *)
(***************************************************************************)
EXTENDS Integers, Sequences, FiniteSets, TLC

VARIABLES sessions, handlers, delivered

vars == <<sessions, handlers, delivered>>

(***************************************************************************)
(* Bounds of the exploration.                                              *)
(***************************************************************************)
\* Spec: total number of inbound messages delivered.
MaxMsgs == 2
\* SpecSerial: a message is delivered only while the transcript is at most this much
\* longer than the shortest transcript its step can have.
MaxDetour == 1
\* The agent answers only while the transcript it is given has at most this many
\* user entries; SpecSerial delivers an off-script text only below it.
MaxTurns == 2

\* Messages out of turn that the otherwise cooperating user of SpecDegraded sends.
MaxStray == 2

Users == {1, 2}
\* Handlers that may be in flight at once for one user (Spec).
Slots == {1, 2}
\* The user whose messages SpecSerial delivers, one at a time.
SerialUsers == {1}

(***************************************************************************)
(* Strings.  A text is a sequence of characters or tokens; the helpers     *)
(* below are the JavaScript string methods the code uses.                  *)
(***************************************************************************)
Whitespace == {" ", "\n"}

FAILED == "[FAILED]"
CONFIRMED == "[CONFIRMED]"
REJECTED == "[REJECTED]"

\* String.prototype.endsWith for a one-token suffix.
endsWith(s, tok) == Len(s) > 0 /\ s[Len(s)] = tok

\* Index of the first occurrence of tok in s, 0 when there is none.
indexOf(s, tok) ==
    IF \E i \in 1..Len(s) : s[i] = tok
    THEN CHOOSE i \in 1..Len(s) : s[i] = tok /\ \A j \in 1..(i - 1) : s[j] # tok
    ELSE 0

\* String.prototype.replace(tok, ""): removes the FIRST occurrence only.
replaceFirst(s, tok) ==
    LET i == indexOf(s, tok)
    IN IF i = 0 THEN s
       ELSE SubSeq(s, 1, i - 1) \o SubSeq(s, i + 1, Len(s))

\* String.prototype.trim.
trim(s) ==
    LET keep == {i \in 1..Len(s) : s[i] \notin Whitespace}
    IN IF keep = {} THEN <<>>
       ELSE LET lo == CHOOSE i \in keep : \A j \in keep : i <= j
                hi == CHOOSE i \in keep : \A j \in keep : j <= i
            IN SubSeq(s, lo, hi)

lowerChar(c) ==
    CASE c = "Y" -> "y"
      [] c = "E" -> "e"
      [] c = "S" -> "s"
      [] c = "N" -> "n"
      [] c = "O" -> "o"
      [] OTHER -> c

\* String.prototype.toLowerCase.
toLowerCase(s) == [i \in 1..Len(s) |-> lowerChar(s[i])]

(***************************************************************************)
(* Inbound messages (services/telegram/schemas.ts).  An optional field is  *)
(* a sequence of length 0 (absent) or 1 (present).                         *)
(***************************************************************************)
MAX_FILE_SIZE == 10485760

MINDEE_SUPPORTED_MIME_TYPES ==
    {"image/jpeg", "image/png", "image/webp", "image/tiff", "image/heic", "application/pdf"}

TextYes == <<"y", "e", "s">>
TextYesPadded == <<" ", "Y", "e", "S", "\n">>
TextNo == <<"N", "O">>
TextMaybe == <<"m", "a", "y", "b", "e">>
TextStart == <<"/", "s", "t", "a", "r", "t">>

Msg(photo, document, entities, text) ==
    [photo |-> photo, document |-> document, entities |-> entities, text |-> text]

Doc(mime, size) == [mime_type |-> mime, file_size |-> size]

Messages ==
    { Msg(<< <<1024, MAX_FILE_SIZE>> >>, <<>>, <<>>, <<>>),
      Msg(<< <<1024, MAX_FILE_SIZE + 1>> >>, <<Doc("application/pdf", 1024)>>, <<>>, <<>>),
      Msg(<< <<1024, MAX_FILE_SIZE + 1>> >>, <<>>, << <<"bot_command">> >>, <<TextStart>>),
      Msg(<<>>, <<Doc("application/pdf", MAX_FILE_SIZE)>>, <<>>, <<>>),
      Msg(<<>>, <<Doc("application/pdf", MAX_FILE_SIZE + 1)>>, <<>>, <<>>),
      Msg(<<>>, <<Doc("video/mp4", 1024)>>, << <<"bot_command">> >>, <<TextStart>>),
      Msg(<<>>, <<>>, << <<"bot_command">> >>, <<TextStart>>),
      Msg(<<>>, <<>>, <<>>, <<TextYes>>),
      Msg(<<>>, <<>>, <<>>, <<TextYesPadded>>),
      Msg(<<>>, <<>>, <<>>, <<TextNo>>),
      Msg(<<>>, <<>>, << <<"bold", "bot_command">> >>, <<TextMaybe>>),
      Msg(<<>>, <<>>, <<>>, <<>>) }

\* The updates Spec delivers: a command, a photo, a document, two texts.
RaceMessages ==
    { Msg(<<>>, <<>>, << <<"bot_command">> >>, <<TextStart>>),
      Msg(<< <<1024, MAX_FILE_SIZE>> >>, <<>>, <<>>, <<>>),
      Msg(<<>>, <<>>, <<>>, <<TextYes>>),
      Msg(<<>>, <<>>, <<>>, <<TextNo>>) }

NoMsg == Msg(<<>>, <<>>, <<>>, <<>>)

\* message.text! as the code reads it (undefined reads as the empty text here).
TextOf(m) == IF m.text = <<>> THEN <<>> ELSE m.text[1]

\* getContentType looking at the entities and the text before the attachments.
getContentType_attachmentsLast(m) ==
    IF m.entities # <<>> /\ Len(m.entities[1]) > 0 /\ m.entities[1][1] = "bot_command"
    THEN "command"
    ELSE IF m.text # <<>> /\ m.text[1] # <<>> THEN "text"
    ELSE IF m.photo # <<>> THEN "photo"
    ELSE IF m.document # <<>> THEN "document"
    ELSE "unsupported"

\* getContentType: photo > document > first entity is a bot command > text > unsupported.
getContentType(m) ==
    IF m.photo # <<>> THEN "photo"
    ELSE IF m.document # <<>> THEN "document"
    ELSE IF m.entities # <<>> /\ Len(m.entities[1]) > 0 /\ m.entities[1][1] = "bot_command"
         THEN "command"
    ELSE IF m.text # <<>> /\ m.text[1] # <<>> THEN "text"
    ELSE "unsupported"

(***************************************************************************)
(* UserSession.                                                            *)
(***************************************************************************)
STEPS ==
    << "start", "awaiting_passport", "confirming_passport", "awaiting_driversId",
       "confirming_driversId", "confirming_price", "sending_policy", "completed" >>

StepName(i) == STEPS[i + 1]

\* Document data: undefined, null, a structured record or the user's raw text.
Undefined == [k |-> "undefined", v |-> <<>>]
Null == [k |-> "null", v |-> <<>>]
Struct(documentType) == [k |-> "struct", v |-> <<documentType>>]
Raw(text) == [k |-> "raw", v |-> text]

Present(d) == d.k \in {"struct", "raw"}

\* new UserSession(): step 0, empty conversation, nothing else set.
NewSession ==
    [ stepIndex |-> 0, conversation |-> <<>>, passportData |-> Undefined,
      driversIdData |-> Undefined, awaitingManualInput |-> "undefined" ]

\* A store slot without a session yet.
NoSession == [exists |-> FALSE, s |-> NewSession]
Stored(s) == [exists |-> TRUE, s |-> s]

Truthy(flag) == flag = "true"

Entry(role, text) == [role |-> role, text |-> text]

addToConversationHistory(s, item, role) ==
    [s EXCEPT !.conversation = Append(@, Entry(role, item))]

setConversation(s, history) == [s EXCEPT !.conversation = history]

\* nextStep() without its guard at the last step.
nextStep_unguarded(s) == [s EXCEPT !.stepIndex = @ + 1]

nextStep(s) ==
    IF s.stepIndex < Len(STEPS) - 1 THEN [s EXCEPT !.stepIndex = @ + 1] ELSE s

prevStep(s) ==
    IF s.stepIndex > 0 THEN [s EXCEPT !.stepIndex = @ - 1] ELSE s

\* setDocumentData writing every document into the passport field.
setDocumentData_onlyPassportField(s, documentType, data) == [s EXCEPT !.passportData = data]


setDocumentData(s, documentType, data) ==
    IF documentType = "passport"
    THEN [s EXCEPT !.passportData = data]
    ELSE [s EXCEPT !.driversIdData = data]

(***************************************************************************)
(* Step registry (stepConfigs), indexed by the step index.                 *)
(***************************************************************************)
expectsContent(i) ==
    CASE i = 0 -> <<"command">>
      [] i \in {1, 3} -> <<"document", "photo">>
      [] i \in {2, 4, 5, 6} -> <<"text">>
      [] OTHER -> <<"text", "command">>

expectedAction(i) ==
    CASE i = 0 -> "use a /start command first"
      [] i = 1 -> "send your passport photo"
      [] i = 2 -> "confirm your passport data"
      [] i = 3 -> "send your driver's license photo"
      [] i = 4 -> "confirm your driver's license data"
      [] i = 5 -> "confirm or reject our offer"
      [] i = 6 -> ""
      [] OTHER -> "enjoy your newly issued policy"

\* documentType of the two DocumentStepConfig entries.
documentType(i) == IF i = 1 THEN "passport" ELSE "driver's license"

\* A registry whose completed step runs the handler of start again.
handlerOf_completedRestarts(i) ==
    CASE i \in {1, 3} -> "processDocument"
      [] i \in {2, 4, 5} -> "handleConfirmation"
      [] i = 6 -> "sendPolicy"
      [] OTHER -> "start"

\* Which function the step's handler calls.
handlerOf(i) ==
    CASE i = 0 -> "start"
      [] i \in {1, 3} -> "processDocument"
      [] i \in {2, 4, 5} -> "handleConfirmation"
      [] i = 6 -> "sendPolicy"
      [] OTHER -> "completed"

\* Only confirming_price defines onAccept.
hasOnAccept(i) == i = 5

includes(seq, x) == \E j \in 1..Len(seq) : seq[j] = x

(***************************************************************************)
(* Outbound texts.  A templated message is a tag followed by what the      *)
(* template interpolates; an agent reply is its token sequence.            *)
(***************************************************************************)
FallbackMessage(i) == <<"#sorry_cant_process", expectedAction(i)>>
RetryPrompt(i) == <<"#please_send">> \o expectsContent(i)
WelcomeMessage == <<"#welcome">>
ThanksMessage == <<"#thanks_for_using">>
ProcessingMessage == <<"#processing">>
UnsupportedFormatMessage == <<"#unsupported_file_format">>
TooBigMessage == <<"#exceeds_10MB">>
SendAgainMessage(fileType) == <<"#send_again", fileType>>
ApologyMessage(docType) == <<"#sorry_type_manually", docType>>
ManualConfirmationMessage(docType, text) == <<"#recorded", docType>> \o text
YesNoPrompt == <<"#reply_yes_or_no">>
PolicyErrorMessage == <<"#policy_error">>

\* createDocumentSummary: the extracted fields, then the yes/no question.
createDocumentSummary(data, docType) == <<"#extracted", docType>> \o data.v \o <<"#yes_or_no">>

\* The prompt promptAgent builds: the context (current step, user id), the
\* instruction and the user message, as one opaque text.
ContextualMessage(s, userMessage) == <<"#context", StepName(s.stepIndex)>>

DocumentPrompt(docType) == <<"#photo_of_my", docType>>

\* guessDecision that never recognises "yes".
guessDecision_onlyNo(text) ==
    IF trim(toLowerCase(text)) = <<"n", "o">> THEN "no" ELSE "unparseable"

\* guessDecision without trim().
guessDecision_untrimmed(text) ==
    LET normalized == toLowerCase(text)
    IN IF normalized = <<"y", "e", "s">> THEN "yes"
       ELSE IF normalized = <<"n", "o">> THEN "no"
       ELSE "unparseable"

\* guessDecision: exact "yes" / "no" after case-folding and trimming.
guessDecision(text) ==
    LET normalized == trim(toLowerCase(text))
    IN IF normalized = <<"y", "e", "s">> THEN "yes"
       ELSE IF normalized = <<"n", "o">> THEN "no"
       ELSE "unparseable"

\* getMessagesForStep: defined for the three confirmation steps, throws for the others.
getMessagesForStepThrows(i) == i \notin {2, 4, 5}

getMessagesForStep(i) ==
    [ retryMessage |-> <<"#retry", StepName(i)>>,
      successMessage |-> <<"#success", StepName(i)>> ]

\* What the agent may answer.  An empty finalOutput makes promptAgent throw.
Replies ==
    { <<"ok">>,
      <<"sorry", " ", FAILED>>,
      <<FAILED, " ", "sorry", " ", FAILED>>,
      <<"good", " ", CONFIRMED>>,
      <<CONFIRMED, " ", "good", " ", CONFIRMED>>,
      <<"again", " ", REJECTED>>,
      <<>> }

(***************************************************************************)
(* Handler records.  pc names the await the invocation is suspended at;    *)
(* ev is the list of collaborator calls that have returned so far.         *)
(***************************************************************************)
SendPcs ==
    { "g1_fallback", "h_retry", "g3_reply", "g3_fallback", "g3_file_fallback",
      "start_welcome", "completed_thanks", "pd_error", "pd_processing", "pd_failed",
      "pd_reply", "pd_summary", "pd_apology", "mi_confirm", "hc_result", "hc_answer",
      "hc_prompt", "hc_success", "hc_retry", "sp_error" }

AgentPcs == {"pd_agent", "hc_agent", "g3_agent"}

Idle ==
    [ pc |-> "idle", msg |-> NoMsg, cfg |-> 0, out |-> <<>>, snap |-> <<>>,
      dec |-> "none", ev |-> <<>>, s0 |-> NewSession ]

InFlight(h) == h.pc \notin {"idle", "done"}

Ev(op, at, ok, text) == [op |-> op, at |-> at, ok |-> ok, text |-> text]

Log(h, op, ok, text) == [h EXCEPT !.ev = Append(@, Ev(op, h.pc, ok, text))]

\* Suspend at `await sendMessage(chat_id, text)`.
AwaitSend(h, at, text) == [h EXCEPT !.pc = at, !.out = text]

\* Suspend at another collaborator call.
AwaitCall(h, at) == [h EXCEPT !.pc = at, !.out = <<>>]

\* Suspend at `await run(agent, [...userState.conversation, user(contextualMessage)])`.
AwaitAgent(h, at, s, userMessage) ==
    [h EXCEPT !.pc = at, !.out = <<>>,
              !.snap = Append(s.conversation, Entry("user", ContextualMessage(s, userMessage)))]

\* The user entries of a transcript.
UserEntries(conv) == Cardinality({i \in 1..Len(conv) : conv[i].role = "user"})

Return(h) == [h EXCEPT !.pc = "done", !.out = <<>>]

\* A pair: the session and the handler record after a synchronous stretch of code.
R(s, h) == [s |-> s, h |-> h]

(***************************************************************************)
(* The code between two awaits.  Each operator takes the session and the   *)
(* handler record and gives both back, the record suspended at the next    *)
(* await or returned.                                                      *)
(***************************************************************************)

\* A catch that puts the session back to what it was when the message arrived.
RouterCatch_rollsBack(s, h) == R(h.s0, AwaitSend(h, "h_retry", RetryPrompt(h.cfg)))

\* The router's catch around the step handler (GATE 2): send the retry prompt.
RouterCatch(s, h) == R(s, AwaitSend(h, "h_retry", RetryPrompt(h.cfg)))

\* A top-level catch that rethrows: the exception leaves the webhook handler.
TopLevelCatch_rethrows(s, h) == R(s, [h EXCEPT !.pc = "escaped", !.out = <<>>])

\* The top-level catch of the webhook handler: log, send nothing.
TopLevelCatch(s, h) == R(s, Return(h))

\* sendPolicy up to `await generatePolicyPDF(userState)`.
sendPolicy(s, h) == R(s, AwaitCall(h, "sp_pdf"))

\* The accept path advancing the step without starting the policy delivery.
onAccept_advanceOnly(s, h) == R(nextStep(s), Return(h))

\* The accept path of a confirmation step: onAccept if defined, else nextStep().
onAccept(s, h) ==
    IF hasOnAccept(h.cfg) THEN sendPolicy(nextStep(s), h) ELSE R(nextStep(s), Return(h))

\* The reject path only stepping back, the stored data kept.
onReject_keepsData(s, h) ==
    IF h.cfg = 5 THEN R(s, Return(h)) ELSE R(prevStep(s), Return(h))

\* The reject path: the step's onReject (all three confirmation steps define one).
onReject(s, h) ==
    CASE h.cfg = 2 -> R(prevStep(setDocumentData(s, "passport", Null)), Return(h))
      [] h.cfg = 4 -> R(prevStep(setDocumentData(s, "driver's license", Null)), Return(h))
      [] h.cfg = 5 -> R(s, Return(h))
      [] OTHER -> R(prevStep(s), Return(h))

\* handleManualInput leaving awaitingManualInput as it was.
handleManualInput_keepsFlag(s, h) ==
    LET docType == documentType(h.cfg)
        text == TextOf(h.msg)
        s1 == setDocumentData(s, docType, Raw(text))
    IN R(s1, AwaitSend(h, "mi_confirm", ManualConfirmationMessage(docType, text)))

\* handleManualInput up to `await sendMessage(chat_id, confirmationMsg)`.
handleManualInput(s, h) ==
    LET docType == documentType(h.cfg)
        text == TextOf(h.msg)
        s1 == setDocumentData(s, docType, Raw(text))
        s2 == [s1 EXCEPT !.awaitingManualInput = "false"]
    IN R(s2, AwaitSend(h, "mi_confirm", ManualConfirmationMessage(docType, text)))

\* getFileUrl without the size ceiling.
getFileUrl_noSizeLimit(m, fileType) ==
    IF fileType = "photo"
    THEN IF Len(m.photo[1]) = 0 THEN [kind |-> "throw", errorMessage |-> <<>>]
         ELSE [kind |-> "getFile", errorMessage |-> <<>>]
    ELSE IF m.document[1].mime_type \notin MINDEE_SUPPORTED_MIME_TYPES
         THEN [kind |-> "fail", errorMessage |-> UnsupportedFormatMessage]
         ELSE [kind |-> "getFile", errorMessage |-> <<>>]

\* getFileUrl up to `await getFile(file_id)`: "throw", an error message, or the call.
getFileUrl(m, fileType) ==
    IF fileType = "photo"
    THEN LET photos == m.photo[1]
         IN IF Len(photos) = 0 THEN [kind |-> "throw", errorMessage |-> <<>>]
            ELSE IF photos[Len(photos)] > MAX_FILE_SIZE
                 THEN [kind |-> "fail", errorMessage |-> TooBigMessage]
            ELSE [kind |-> "getFile", errorMessage |-> <<>>]
    ELSE LET document == m.document[1]
         IN IF document.mime_type \notin MINDEE_SUPPORTED_MIME_TYPES
            THEN [kind |-> "fail", errorMessage |-> UnsupportedFormatMessage]
            ELSE IF document.file_size > MAX_FILE_SIZE
                 THEN [kind |-> "fail", errorMessage |-> TooBigMessage]
            ELSE [kind |-> "getFile", errorMessage |-> <<>>]

FileTypeOf(m) == IF getContentType(m) = "document" THEN "document" ELSE "photo"

\* processDocument up to its first await.
processDocument(s, h) ==
    IF Truthy(s.awaitingManualInput) /\ getContentType(h.msg) = "text"
    THEN handleManualInput(s, h)
    ELSE LET result == getFileUrl(h.msg, FileTypeOf(h.msg))
         IN CASE result.kind = "throw" -> RouterCatch(s, h)
              [] result.kind = "fail" -> R(s, AwaitSend(h, "pd_error", result.errorMessage))
              [] OTHER -> R(s, AwaitCall(h, "pd_getFile"))

\* Tier 2 of processDocument: `await extractData(fileUrl, config.documentType)`.
Tier2(s, h) == R(s, AwaitCall(h, "pd_extract"))

\* Tier 3 of processDocument up to `await sendMessage(chat_id, apologyMsg)`.
Tier3(s, h) == R(s, AwaitSend(h, "pd_apology", ApologyMessage(documentType(h.cfg))))

\* handleConfirmation up to the agent call of getAIConfirmation.
handleConfirmation(s, h) == R(s, AwaitAgent(h, "hc_agent", s, TextOf(h.msg)))

\* RESULT 3 of handleConfirmation: the agent is unavailable, match "yes" / "no".
ManualConfirmation(s, h) ==
    LET decision == guessDecision(TextOf(h.msg))
    IN IF decision = "unparseable" THEN R(s, AwaitSend(h, "hc_prompt", YesNoPrompt))
       ELSE IF getMessagesForStepThrows(s.stepIndex) THEN RouterCatch(s, h)
       ELSE IF decision = "yes"
            THEN R(s, AwaitSend([h EXCEPT !.dec = "yes"], "hc_success",
                                getMessagesForStep(s.stepIndex).successMessage))
            ELSE R(s, AwaitSend([h EXCEPT !.dec = "no"], "hc_retry",
                                getMessagesForStep(s.stepIndex).retryMessage))

\* stepConfig.handler(chat_id, userState, contentType, message).
RunHandler(s, h) ==
    CASE handlerOf(h.cfg) = "start" -> R(s, AwaitSend(h, "start_welcome", WelcomeMessage))
      [] handlerOf(h.cfg) = "processDocument" -> processDocument(s, h)
      [] handlerOf(h.cfg) = "handleConfirmation" -> handleConfirmation(s, h)
      [] handlerOf(h.cfg) = "sendPolicy" -> sendPolicy(s, h)
      [] OTHER -> R(s, AwaitSend(h, "completed_thanks", ThanksMessage))

\* GATE 2: the content is what the step expects, or it is awaited manual input.
isManualInput(s, contentType) == Truthy(s.awaitingManualInput) /\ contentType = "text"

\* GATE 2 without the manual-input special case.
isExpectedContent_listedOnly(s, cfg, contentType) ==
    includes(expectsContent(cfg), contentType)

isExpectedContent(s, cfg, contentType) ==
    includes(expectsContent(cfg), contentType) \/ isManualInput(s, contentType)

\* The webhook handler with a GATE 3 that hands every unexpected message to the agent.
Dispatch_everythingToAgent(s, h) ==
    LET contentType == getContentType(h.msg)
    IN IF contentType = "unsupported"
       THEN R(s, AwaitSend(h, "g1_fallback", FallbackMessage(h.cfg)))
       ELSE IF isExpectedContent(s, h.cfg, contentType) THEN RunHandler(s, h)
       ELSE LET s1 == addToConversationHistory(s, TextOf(h.msg), "user")
            IN R(s1, AwaitAgent(h, "g3_agent", s1, TextOf(h.msg)))

\* The webhook handler taking whatever arrives as manual input while the flag is set,
\* before GATE 1.
Dispatch_manualInputFirst(s, h) ==
    LET contentType == getContentType(h.msg)
    IN IF Truthy(s.awaitingManualInput) /\ contentType \notin {"photo", "document"}
       THEN handleManualInput(s, h)
       ELSE IF contentType = "unsupported"
       THEN R(s, AwaitSend(h, "g1_fallback", FallbackMessage(h.cfg)))
       ELSE IF isExpectedContent(s, h.cfg, contentType) THEN RunHandler(s, h)
       ELSE IF contentType \in {"text", "command"}
            THEN LET s1 == addToConversationHistory(s, TextOf(h.msg), "user")
                 IN R(s1, AwaitAgent(h, "g3_agent", s1, TextOf(h.msg)))
       ELSE R(s, AwaitSend(h, "g3_file_fallback", FallbackMessage(h.cfg)))

\* A router that drops unsupported content without a reply.
Dispatch_dropsUnsupported(s, h) ==
    LET contentType == getContentType(h.msg)
    IN IF contentType = "unsupported"
       THEN R(s, Return(h))
       ELSE IF isExpectedContent(s, h.cfg, contentType) THEN RunHandler(s, h)
       ELSE IF contentType \in {"text", "command"}
            THEN LET s1 == addToConversationHistory(s, TextOf(h.msg), "user")
                 IN R(s1, AwaitAgent(h, "g3_agent", s1, TextOf(h.msg)))
       ELSE R(s, AwaitSend(h, "g3_file_fallback", FallbackMessage(h.cfg)))

\* The webhook handler from its entry to its first await (GATE 1, 2, 3).
Dispatch(s, h) ==
    LET contentType == getContentType(h.msg)
    IN IF contentType = "unsupported"
       THEN R(s, AwaitSend(h, "g1_fallback", FallbackMessage(h.cfg)))
       ELSE IF isExpectedContent(s, h.cfg, contentType) THEN RunHandler(s, h)
       ELSE IF contentType \in {"text", "command"}
            THEN LET s1 == addToConversationHistory(s, TextOf(h.msg), "user")
                 IN R(s1, AwaitAgent(h, "g3_agent", s1, TextOf(h.msg)))
       ELSE R(s, AwaitSend(h, "g3_file_fallback", FallbackMessage(h.cfg)))

\* The code after each send, without the append after a markerless answer.
AfterSendOk_answerNotRecorded(s, h) ==
    CASE h.pc = "g3_reply" ->
            R(addToConversationHistory(s, h.out, "assistant"), Return(h))
      [] h.pc = "start_welcome" -> R(nextStep(s), Return(h))
      [] h.pc = "mi_confirm" ->
            R(nextStep(addToConversationHistory(s, h.out, "assistant")), Return(h))
      [] h.pc = "pd_processing" ->
            R(s, AwaitAgent(h, "pd_agent", s, DocumentPrompt(documentType(h.cfg))))
      [] h.pc = "pd_reply" -> R(nextStep(s), Return(h))
      [] h.pc = "pd_summary" ->
            R(nextStep(addToConversationHistory(s, h.out, "assistant")), Return(h))
      [] h.pc = "pd_apology" ->
            R([addToConversationHistory(s, h.out, "assistant")
                   EXCEPT !.awaitingManualInput = "true"], Return(h))
      [] h.pc \in {"hc_result", "hc_success", "hc_retry"} ->
            LET s1 == addToConversationHistory(s, h.out, "assistant")
            IN IF h.dec = "yes" THEN onAccept(s1, h) ELSE onReject(s1, h)
      [] OTHER -> R(s, Return(h))

\* What follows a sendMessage that resolved.
AfterSendOk(s, h) ==
    CASE h.pc \in {"g3_reply", "hc_answer"} ->
            R(addToConversationHistory(s, h.out, "assistant"), Return(h))
      [] h.pc = "start_welcome" -> R(nextStep(s), Return(h))
      [] h.pc = "mi_confirm" ->
            R(nextStep(addToConversationHistory(s, h.out, "assistant")), Return(h))
      [] h.pc = "pd_processing" ->
            R(s, AwaitAgent(h, "pd_agent", s, DocumentPrompt(documentType(h.cfg))))
      [] h.pc = "pd_reply" -> R(nextStep(s), Return(h))
      [] h.pc = "pd_summary" ->
            R(nextStep(addToConversationHistory(s, h.out, "assistant")), Return(h))
      [] h.pc = "pd_apology" ->
            R([addToConversationHistory(s, h.out, "assistant")
                   EXCEPT !.awaitingManualInput = "true"], Return(h))
      [] h.pc \in {"hc_result", "hc_success", "hc_retry"} ->
            LET s1 == addToConversationHistory(s, h.out, "assistant")
            IN IF h.dec = "yes" THEN onAccept(s1, h) ELSE onReject(s1, h)
      [] OTHER -> R(s, Return(h))

\* What follows a sendMessage that threw: the innermost enclosing catch.
AfterSendThrew(s, h) ==
    CASE h.pc \in {"g1_fallback", "g3_fallback", "g3_file_fallback", "h_retry"} ->
            TopLevelCatch(s, h)
      [] h.pc = "g3_reply" -> R(s, AwaitSend(h, "g3_fallback", FallbackMessage(h.cfg)))
      [] h.pc \in {"pd_failed", "pd_reply"} -> Tier2(s, h)
      [] h.pc = "pd_summary" -> Tier3(s, h)
      [] OTHER -> RouterCatch(s, h)

\* What follows a promptAgent that threw.
AfterAgentThrew(s, h) ==
    CASE h.pc = "pd_agent" -> Tier2(s, h)
      [] h.pc = "hc_agent" -> ManualConfirmation(s, h)
      [] OTHER -> R(s, AwaitSend(h, "g3_fallback", FallbackMessage(h.cfg)))

\* The confirmation resolver matching "yes" / "no" itself when the reply has no marker.
AfterAgentReplied_guessing(s, h, reply) ==
    LET s1 == setConversation(s, Append(h.snap, Entry("assistant", reply)))
    IN CASE h.pc = "pd_agent" ->
              IF endsWith(reply, FAILED)
              THEN R(s1, AwaitSend(h, "pd_failed", trim(replaceFirst(reply, FAILED))))
              ELSE R(s1, AwaitSend(h, "pd_reply", reply))
         [] h.pc = "hc_agent" ->
              IF endsWith(reply, CONFIRMED)
              THEN R(s1, AwaitSend([h EXCEPT !.dec = "yes"], "hc_result",
                                   trim(replaceFirst(reply, CONFIRMED))))
              ELSE IF endsWith(reply, REJECTED)
              THEN R(s1, AwaitSend([h EXCEPT !.dec = "no"], "hc_result",
                                   trim(replaceFirst(reply, REJECTED))))
              ELSE ManualConfirmation(s1, h)
         [] OTHER -> R(s1, AwaitSend(h, "g3_reply", reply))

\* What follows a promptAgent that returned `reply`: the history is stored first.
AfterAgentReplied(s, h, reply) ==
    LET s1 == setConversation(s, Append(h.snap, Entry("assistant", reply)))
    IN CASE h.pc = "pd_agent" ->
              IF endsWith(reply, FAILED)
              THEN R(s1, AwaitSend(h, "pd_failed", trim(replaceFirst(reply, FAILED))))
              ELSE R(s1, AwaitSend(h, "pd_reply", reply))
         [] h.pc = "hc_agent" ->
              IF endsWith(reply, CONFIRMED)
              THEN R(s1, AwaitSend([h EXCEPT !.dec = "yes"], "hc_result",
                                   trim(replaceFirst(reply, CONFIRMED))))
              ELSE IF endsWith(reply, REJECTED)
              THEN R(s1, AwaitSend([h EXCEPT !.dec = "no"], "hc_result",
                                   trim(replaceFirst(reply, REJECTED))))
              ELSE R(s1, AwaitSend(h, "hc_answer", reply))
         [] OTHER -> R(s1, AwaitSend(h, "g3_reply", reply))

\* Tier 2 summarising the extracted data without storing it.
AfterExtract_discards(s, h, ok) ==
    IF ok
    THEN R(s, AwaitSend(h, "pd_summary",
                        createDocumentSummary(Struct(documentType(h.cfg)), documentType(h.cfg))))
    ELSE R(s, AwaitSend(h, "pd_apology", ApologyMessage(documentType(h.cfg))))

\* Tier 2 ending the invocation without a word when the extraction raised.
AfterExtract_silentOnFailure(s, h, ok) ==
    IF ok
    THEN LET docType == documentType(h.cfg)
             documentData == Struct(docType)
         IN R(setDocumentData(s, docType, documentData),
              AwaitSend(h, "pd_summary", createDocumentSummary(documentData, docType)))
    ELSE R(s, Return(h))

\* Tier 2 calling the extraction service a second time after it raised.
AfterExtract_retriesOnce(s, h, ok) ==
    IF ok
    THEN LET docType == documentType(h.cfg)
             documentData == Struct(docType)
         IN R(setDocumentData(s, docType, documentData),
              AwaitSend(h, "pd_summary", createDocumentSummary(documentData, docType)))
    ELSE IF Cardinality({i \in 1..Len(h.ev) : h.ev[i].op = "extract"}) < 2
         THEN R(s, AwaitCall(h, "pd_extract"))
         ELSE Tier3(s, h)

\* What follows extractData: store and summarise, or fall to tier 3.
AfterExtract(s, h, ok) ==
    IF ok
    THEN LET docType == documentType(h.cfg)
             documentData == Struct(docType)
         IN R(setDocumentData(s, docType, documentData),
              AwaitSend(h, "pd_summary", createDocumentSummary(documentData, docType)))
    ELSE Tier3(s, h)

(***************************************************************************)
(* Actions.                                                                *)
(***************************************************************************)
TypeOK ==
    /\ delivered \in 0..(MaxMsgs + MaxStray)
    /\ \A u \in Users : sessions[u].s.stepIndex \in Int
    /\ \A u \in Users : \A k \in Slots : handlers[u][k].pc \in STRING

Init ==
    /\ sessions = [u \in Users |-> NoSession]
    /\ handlers = [u \in Users |-> [k \in Slots |-> Idle]]
    /\ delivered = 0

\* A store that hands out a new session at every call.
get_alwaysNew(chat_id) == NewSession

\* sessionStorage.get(chat_id): the stored session, or a new one.
get(chat_id) == IF sessions[chat_id].exists THEN sessions[chat_id].s ELSE NewSession

Commit(u, k, r) ==
    /\ sessions' = [sessions EXCEPT ![u] = Stored(r.s)]
    /\ handlers' = [handlers EXCEPT ![u][k] = r.h]

\* The webhook handler starts for message m of user u and runs to its first await.
Begin(u, k, m) ==
    LET userState == get(u)
        h == [Idle EXCEPT !.msg = m, !.cfg = userState.stepIndex, !.s0 = userState]
    IN Commit(u, k, Dispatch(userState, h))

FreeSlot(u, k) ==
    /\ ~InFlight(handlers[u][k])
    /\ \A j \in Slots : j < k => InFlight(handlers[u][j])

\* An update arrives; the middleware has answered 200 already, so nothing makes it
\* wait for the handlers of earlier updates.
Deliver(u, m) ==
    /\ delivered < MaxMsgs
    /\ \E k \in Slots : FreeSlot(u, k) /\ Begin(u, k, m)
    /\ delivered' = delivered + 1

\* The length of the shortest transcript a session at step i can have: every
\* completed document step and every accepted confirmation adds an entry.
MinConv(i) == IF i < 2 THEN 0 ELSE IF i > 5 THEN i - 2 ELSE i - 1

\* The message takes the router's GATE 3 agent path: text the step does not expect.
OffScript(s, m) ==
    /\ getContentType(m) \in {"text", "command"}
    /\ ~isExpectedContent(s, s.stepIndex, getContentType(m))

\* An update arrives after the user's previous one has been handled.
DeliverSerial(u, m) ==
    /\ u \in SerialUsers
    /\ \A k \in Slots : ~InFlight(handlers[u][k])
    /\ Len(get(u).conversation) <= MinConv(get(u).stepIndex) + MaxDetour
    /\ OffScript(get(u), m) => UserEntries(get(u).conversation) + 2 <= MaxTurns
    /\ Begin(u, 1, m)
    /\ UNCHANGED delivered

\* `await sendMessage(...)` resolves (ok) or throws.
SendReturns(u, k, ok) ==
    LET h == handlers[u][k]
        logged == Log(h, "send", ok, h.out)
    IN /\ h.pc \in SendPcs
       /\ Commit(u, k, IF ok THEN AfterSendOk(get(u), logged) ELSE AfterSendThrew(get(u), logged))
       /\ UNCHANGED delivered

\* `await getFile(file_id)` inside getFileUrl resolves or throws.
GetFileReturns(u, k, ok) ==
    LET h == handlers[u][k]
        logged == Log(h, "getFile", ok, <<>>)
    IN /\ h.pc = "pd_getFile"
       /\ Commit(u, k, IF ok THEN R(get(u), AwaitSend(logged, "pd_processing", ProcessingMessage))
                       ELSE R(get(u), AwaitSend(logged, "pd_error",
                                                SendAgainMessage(FileTypeOf(h.msg)))))
       /\ UNCHANGED delivered

\* The step at which the system prompt lets the agent use its tools ("ONLY use the
\* tools when you're in the appropriate awaiting step"): the two document-awaiting
\* steps, whether the run was started by the document pipeline or by the router for
\* a text the step did not expect.
ToolAllowed(h) == h.pc = "pd_agent" \/ (h.pc = "g3_agent" /\ h.cfg \in {1, 3})

\* During a run at a document-awaiting step the agent runs its extraction tool
\* (parse_passport or parse_drivers_licence, as the system prompt tells it for the
\* step): the tool calls the extraction service and, when that succeeds, stores the
\* data in sessionStorage.get(input.chat_id), chat_id being the number the agent passes.
AgentToolCall(u, k, chat_id, ok) ==
    LET h == handlers[u][k]
        docType == documentType(h.cfg)
        logged == Log(h, "tool", ok, <<docType>>)
        item == Entry("tool", <<docType, IF ok THEN "data" ELSE "error">>)
        userState == get(chat_id)
    IN /\ ToolAllowed(h)
       /\ h.snap[Len(h.snap)].role = "user"
       /\ sessions' = IF ok
                      THEN [sessions EXCEPT ![chat_id] =
                               Stored(setDocumentData(userState, docType, Struct(docType)))]
                      ELSE sessions
       /\ handlers' = [handlers EXCEPT ![u][k] = [logged EXCEPT !.snap = Append(@, item)]]
       /\ UNCHANGED delivered

\* promptAgent returns the agent's final output.
AgentReplies(u, k, reply) ==
    LET h == handlers[u][k]
    IN /\ h.pc \in AgentPcs
       /\ UserEntries(h.snap) <= MaxTurns
       /\ Commit(u, k, IF reply = <<>>
                       THEN AfterAgentThrew(get(u), Log(h, "agent", FALSE, reply))
                       ELSE AfterAgentReplied(get(u), Log(h, "agent", TRUE, reply), reply))
       /\ UNCHANGED delivered

\* promptAgent throws: run() failed.
AgentRaises(u, k) ==
    LET h == handlers[u][k]
    IN /\ h.pc \in AgentPcs
       /\ Commit(u, k, AfterAgentThrew(get(u), Log(h, "agent", FALSE, <<>>)))
       /\ UNCHANGED delivered

\* `await extractData(...)` in tier 2 resolves or throws.
ExtractReturns(u, k, ok) ==
    LET h == handlers[u][k]
    IN /\ h.pc = "pd_extract"
       /\ Commit(u, k, AfterExtract(get(u), Log(h, "extract", ok, <<>>), ok))
       /\ UNCHANGED delivered

\* `await generatePolicyPDF(userState)` resolves or rejects.
PdfReturns(u, k, ok) ==
    LET h == handlers[u][k]
        logged == Log(h, "pdf", ok, <<>>)
    IN /\ h.pc = "sp_pdf"
       /\ Commit(u, k, IF ok THEN R(get(u), AwaitCall(logged, "sp_sendDoc"))
                       ELSE R(get(u), AwaitSend(logged, "sp_error", PolicyErrorMessage)))
       /\ UNCHANGED delivered

\* `await sendDocument(...)` resolves (then nextStep) or throws.
SendDocumentReturns(u, k, ok) ==
    LET h == handlers[u][k]
        logged == Log(h, "sendDocument", ok, <<>>)
    IN /\ h.pc = "sp_sendDoc"
       /\ Commit(u, k, IF ok THEN R(nextStep(get(u)), Return(logged))
                       ELSE R(get(u), AwaitSend(logged, "sp_error", PolicyErrorMessage)))
       /\ UNCHANGED delivered

\* A collaborator call of the router, the document pipeline or the confirmation
\* resolver returns.
Resume ==
    \E u \in Users, k \in Slots :
        \/ \E ok \in BOOLEAN : SendReturns(u, k, ok)
        \/ \E ok \in BOOLEAN : GetFileReturns(u, k, ok)
        \/ \E ok \in BOOLEAN : AgentToolCall(u, k, u, ok)
        \/ \E reply \in Replies : AgentReplies(u, k, reply)
        \/ AgentRaises(u, k)
        \/ \E ok \in BOOLEAN : ExtractReturns(u, k, ok)

\* The agent passes its tool another chat_id than the one of the prompt: the tool
\* takes whatever number the agent gives it.  For the user whose message is handled
\* this is a tool run that stored nothing, so SpecSerial and SpecDegraded, where one
\* user acts, leave it out.
ToolWritesElsewhere ==
    \E u \in Users, k \in Slots :
        \E chat_id \in Users \ {u} : AgentToolCall(u, k, chat_id, TRUE)

\* A collaborator call of sendPolicy returns.
ResumePolicy ==
    \E u \in Users, k \in Slots :
        \/ \E ok \in BOOLEAN : PdfReturns(u, k, ok)
        \/ \E ok \in BOOLEAN : SendDocumentReturns(u, k, ok)

\* Spec explores the first MaxMsgs updates, handled concurrently.  No session gets
\* past confirming_driversId within them (every update advances the step by one at
\* most before the price is accepted), so sendPolicy is never entered and its two
\* awaits are not part of Next; PolicyOutOfReach states it.
Next ==
    \/ \E u \in Users, m \in RaceMessages : Deliver(u, m)
    \/ Resume
    \/ ToolWritesElsewhere

PolicyOutOfReach ==
    \A u \in Users : \A k \in Slots : handlers[u][k].pc \notin {"sp_pdf", "sp_sendDoc", "sp_error"}

NextSerial ==
    \/ \E u \in Users, m \in Messages : DeliverSerial(u, m)
    \/ Resume
    \/ ResumePolicy

\* The program as deployed: updates of one user are handled concurrently.
Spec == Init /\ [][Next]_vars

\* The program with a user who sends the next message after the previous was handled.
SpecSerial == Init /\ [][NextSerial]_vars

(***************************************************************************)
(* Vocabulary of the properties.                                           *)
(***************************************************************************)
Session(u) == sessions[u].s

HandlerSlots == Users \X Slots

Handler(p) == handlers[p[1]][p[2]]

\* The events of h with operation op.
Events(h, op) == SelectSeq(h.ev, LAMBDA e : e.op = op)

\* The texts h has delivered to the user, in order.
Delivered(h) == SelectSeq(h.ev, LAMBDA e : e.op = "send" /\ e.ok)

\* Every sendMessage of h so far went through.
TransportWorked(h) == \A i \in 1..Len(h.ev) : h.ev[i].op = "send" => h.ev[i].ok

Raised(h, op) == \E i \in 1..Len(h.ev) : h.ev[i].op = op /\ ~h.ev[i].ok

Succeeded(h, op) == \E i \in 1..Len(h.ev) : h.ev[i].op = op /\ h.ev[i].ok

\* h sent (or tried to send) at the place `at` of the code.
SentAt(h, at) == \E i \in 1..Len(h.ev) : h.ev[i].op = "send" /\ h.ev[i].at = at

\* h handles an upload at a document-awaiting step through the file pipeline.
IsSubmission(h) ==
    /\ h.pc # "idle"
    /\ h.cfg \in {1, 3}
    /\ getContentType(h.msg) \in {"photo", "document"}

\* The stored data for the document type of step i.
DataFor(s, i) == IF documentType(i) = "passport" THEN s.passportData ELSE s.driversIdData

(***************************************************************************)
(* C1.  Handling of the messages of one user is serialized: while a        *)
(* handler of a user is in flight (suspended at a collaborator call), no   *)
(* other handler of that user has started.                                 *)
(***************************************************************************)
C1_HandlersOfOneUserSerialized ==
    \A u \in Users : Cardinality({k \in Slots : InFlight(handlers[u][k])}) <= 1

(***************************************************************************)
(* C2.  The step index of every session is one of 0..7; nextStep() on a    *)
(* session at completed and prevStep() on a session at start change        *)
(* nothing.                                                                *)
(***************************************************************************)
C2_StepAlwaysDefined ==
    \A u \in Users :
        sessions[u].exists =>
        /\ Session(u).stepIndex \in 0..(Len(STEPS) - 1)
        /\ StepName(Session(u).stepIndex) = "completed" => nextStep(Session(u)) = Session(u)
        /\ StepName(Session(u).stepIndex) = "start" => prevStep(Session(u)) = Session(u)

C2_Witness ==
    \E u \in Users : sessions[u].exists /\ StepName(Session(u).stepIndex) = "completed"

(***************************************************************************)
(* C3.  At confirming_passport the passport data is present, and at        *)
(* confirming_driversId the driver's-license data is present.              *)
(***************************************************************************)
C3_DataPresentWhenConfirming ==
    \A u \in Users :
        /\ StepName(Session(u).stepIndex) = "confirming_passport"
              => Present(Session(u).passportData)
        /\ StepName(Session(u).stepIndex) = "confirming_driversId"
              => Present(Session(u).driversIdData)

(***************************************************************************)
(* C4.  awaitingManualInput is true only on a document-awaiting step: it   *)
(* is false whenever the step has moved on.                                *)
(***************************************************************************)
C4_FlagOnlyWhileAwaitingDocument ==
    \A u \in Users :
        Truthy(Session(u).awaitingManualInput)
            => StepName(Session(u).stepIndex) \in {"awaiting_passport", "awaiting_driversId"}

(***************************************************************************)
(* C5.  Within one processDocument invocation the extraction service is    *)
(* called directly only if the agent call raised, never after the agent    *)
(* returned a reply; the manual-entry prompt is sent only if the direct    *)
(* extraction call raised.                                                 *)
(***************************************************************************)
C5_LaterTierOnlyAfterCollaboratorRaised ==
    \A p \in HandlerSlots :
        LET h == Handler(p)
        IN /\ (h.pc = "pd_extract" \/ Events(h, "extract") # <<>>)
                 => Raised(h, "agent") /\ ~Succeeded(h, "agent")
           /\ (h.pc = "pd_apology" \/ SentAt(h, "pd_apology"))
                 => Raised(h, "extract")

\* h is finished and every message it sent went through.
Completed(h) == h.pc = "done" /\ TransportWorked(h)

\* h took a text as manual input at a document-awaiting step.
IsManualEntry(h) ==
    /\ h.pc # "idle"
    /\ h.cfg \in {1, 3}
    /\ getContentType(h.msg) = "text"
    /\ Truthy(h.s0.awaitingManualInput)

(***************************************************************************)
(* C6.  With the agent call and the direct extraction call both raising,   *)
(* one document submission ends with awaitingManualInput = true and the    *)
(* step unchanged; a text taken as manual input clears the flag, stores    *)
(* the text verbatim as the raw data of the step's document type and       *)
(* advances by exactly one step, to the matching confirmation step.        *)
(***************************************************************************)
C6_BothTiersFailThenManualEntry ==
    \A p \in HandlerSlots :
        LET h == Handler(p)
            s == Session(p[1])
        IN /\ (IsSubmission(h) /\ Completed(h) /\ Raised(h, "agent") /\ Raised(h, "extract"))
                 => /\ s.awaitingManualInput = "true"
                    /\ s.stepIndex = h.s0.stepIndex
           /\ (IsManualEntry(h) /\ Completed(h))
                 => /\ s.awaitingManualInput = "false"
                    /\ DataFor(s, h.cfg) = [k |-> "raw", v |-> TextOf(h.msg)]
                    /\ s.stepIndex = h.s0.stepIndex + 1
                    /\ StepName(s.stepIndex) =
                          (IF h.cfg = 1 THEN "confirming_passport" ELSE "confirming_driversId")

\* A padded text typed right after the apology of tier 3 has been handled.
C6_Witness ==
    \E p \in HandlerSlots :
        LET h == Handler(p)
        IN /\ IsManualEntry(h) /\ Completed(h)
           /\ h.msg.text = <<TextYesPadded>>
           /\ h.s0.conversation # <<>>
           /\ h.s0.conversation[Len(h.s0.conversation)].text = ApologyMessage(documentType(h.cfg))
           /\ Session(p[1]).awaitingManualInput = "false"

(***************************************************************************)
(* C7.  With the agent call raising and the direct extraction call         *)
(* succeeding, one document submission stores the structured fields for    *)
(* the step's document type, advances the step by exactly one, sends no    *)
(* manual-entry prompt and does not set awaitingManualInput.               *)
(***************************************************************************)
C7_ExtractionFallbackStoresAndAdvances ==
    \A p \in HandlerSlots :
        LET h == Handler(p)
            s == Session(p[1])
        IN (IsSubmission(h) /\ Completed(h) /\ Raised(h, "agent") /\ Succeeded(h, "extract"))
              => /\ DataFor(s, h.cfg) = [k |-> "struct", v |-> <<documentType(h.cfg)>>]
                 /\ s.stepIndex = h.s0.stepIndex + 1
                 /\ ~SentAt(h, "pd_apology")
                 /\ s.awaitingManualInput = h.s0.awaitingManualInput

C7_Witness ==
    \E p \in HandlerSlots :
        LET h == Handler(p)
        IN /\ IsSubmission(h) /\ Completed(h) /\ Raised(h, "agent") /\ Succeeded(h, "extract")
           /\ h.cfg = 3
           /\ Session(p[1]).stepIndex = 4

(***************************************************************************)
(* C8.  When the agent's reply to a document submission ends with          *)
(* [FAILED], the text sent to the user is the reply without the marker,    *)
(* the step is unchanged, the extraction service is not called directly    *)
(* and awaitingManualInput is not set.                                     *)
(***************************************************************************)
C8_FailedReplyStrippedAndStepKept ==
    \A p \in HandlerSlots :
        LET h == Handler(p)
            s == Session(p[1])
            replies == SelectSeq(h.ev, LAMBDA e : e.op = "agent" /\ e.ok)
        IN (IsSubmission(h) /\ TransportWorked(h) /\ replies # <<>>
                /\ endsWith(replies[1].text, FAILED))
              => /\ \A i \in 1..Len(h.ev) :
                        (h.ev[i].op = "send" /\ h.ev[i].at = "pd_failed")
                            => ~includes(h.ev[i].text, FAILED)
                 /\ h.pc = "done" => SentAt(h, "pd_failed")
                 /\ s.stepIndex = h.s0.stepIndex
                 /\ h.pc # "pd_extract" /\ Events(h, "extract") = <<>>
                 /\ s.awaitingManualInput = h.s0.awaitingManualInput

\* The largest size of the photo, or the document, that the message carries.
UploadedFile(m) ==
    IF getContentType(m) = "photo"
    THEN [mime_type |-> "image/jpeg", file_size |-> m.photo[1][Len(m.photo[1])]]
    ELSE m.document[1]

\* The upload of h is refused before any extraction is attempted.
RejectedUpload(h) ==
    /\ IsSubmission(h)
    /\ \/ UploadedFile(h.msg).mime_type \notin MINDEE_SUPPORTED_MIME_TYPES
       \/ UploadedFile(h.msg).file_size > MAX_FILE_SIZE
       \/ Raised(h, "getFile")

(***************************************************************************)
(* C9.  A file rejected before extraction (unsupported MIME type, size     *)
(* above the ceiling, or a file reference that cannot be resolved)         *)
(* produces exactly one corrective message, changes nothing in the         *)
(* session, sends no processing acknowledgement and calls neither the      *)
(* agent nor the extraction service.                                       *)
(***************************************************************************)
C9_RejectedFileChangesNothing ==
    \A p \in HandlerSlots :
        LET h == Handler(p)
        IN RejectedUpload(h)
              => /\ Session(p[1]) = h.s0
                 /\ ~SentAt(h, "pd_processing") /\ h.pc # "pd_processing"
                 /\ h.pc \notin {"pd_agent", "pd_extract"}
                 /\ Events(h, "agent") = <<>> /\ Events(h, "tool") = <<>>
                 /\ Events(h, "extract") = <<>>
                 /\ Completed(h)
                       => /\ Len(Delivered(h)) = 1
                          /\ Delivered(h)[1].text \in
                                {UnsupportedFormatMessage, TooBigMessage,
                                 SendAgainMessage(FileTypeOf(h.msg))}

\* A PDF one byte above the ceiling has been refused.
C9_Witness ==
    \E p \in HandlerSlots :
        LET h == Handler(p)
        IN /\ RejectedUpload(h) /\ Completed(h)
           /\ getContentType(h.msg) = "document"
           /\ h.msg.document[1].mime_type = "application/pdf"
           /\ h.msg.document[1].file_size = MAX_FILE_SIZE + 1
           /\ Len(Delivered(h)) = 1

\* h resolved a confirmation by string matching because the agent call raised.
IsManualConfirmation(h) ==
    /\ h.pc # "idle"
    /\ h.cfg \in {2, 4, 5}
    /\ getContentType(h.msg) = "text"
    /\ Raised(h, "agent")
    /\ Completed(h)

IsConfirmationText(h) ==
    /\ h.pc # "idle"
    /\ h.cfg \in {2, 4, 5}
    /\ getContentType(h.msg) = "text"

\* The replies the agent returned to h.
AgentReplied(h) == SelectSeq(h.ev, LAMBDA e : e.op = "agent" /\ e.ok)

NoDecisionMarker(reply) == ~includes(reply, CONFIRMED) /\ ~includes(reply, REJECTED)

(***************************************************************************)
(* C11.  Manual yes/no matching is applied only when the agent call        *)
(* raised: a reply of the agent without a marker causes no step            *)
(* transition and no accept/reject callback whatever the user text (even   *)
(* "yes"), whereas with the agent call raising an unparseable text gets    *)
(* the explicit yes/no prompt.                                             *)
(***************************************************************************)
C11_ManualMatchingOnlyWhenAgentRaised ==
    \A p \in HandlerSlots :
        LET h == Handler(p)
            s == Session(p[1])
        IN IsConfirmationText(h)
              => /\ (h.pc \in {"hc_success", "hc_retry", "hc_prompt"}
                        \/ SentAt(h, "hc_success") \/ SentAt(h, "hc_retry")
                        \/ SentAt(h, "hc_prompt"))
                       => Raised(h, "agent") /\ AgentReplied(h) = <<>>
                 /\ (AgentReplied(h) # <<>> /\ NoDecisionMarker(AgentReplied(h)[1].text))
                       => /\ s.stepIndex = h.s0.stepIndex
                          /\ s.passportData = h.s0.passportData
                          /\ s.driversIdData = h.s0.driversIdData
                          /\ h.dec = "none"
                          /\ Events(h, "pdf") = <<>> /\ h.pc # "sp_pdf"
                 /\ (Raised(h, "agent") /\ Completed(h)
                        /\ TextOf(h.msg) \notin {TextYes, TextYesPadded, TextNo})
                       => /\ Delivered(h) # <<>>
                          /\ Delivered(h)[Len(Delivered(h))].text = YesNoPrompt

\* A literal "yes" at confirming_passport was answered by the agent without a marker.
C11_Witness ==
    \E p \in HandlerSlots :
        LET h == Handler(p)
        IN /\ IsConfirmationText(h) /\ Completed(h)
           /\ h.cfg = 2
           /\ TextOf(h.msg) = TextYes
           /\ AgentReplied(h) # <<>>
           /\ NoDecisionMarker(AgentReplied(h)[1].text)
           /\ Session(p[1]).stepIndex = 2

\* The decision marker that ends the first reply of the agent to h, or "" if none does.
DecisionOf(h) ==
    IF AgentReplied(h) = <<>> THEN ""
    ELSE IF endsWith(AgentReplied(h)[1].text, CONFIRMED) THEN CONFIRMED
    ELSE IF endsWith(AgentReplied(h)[1].text, REJECTED) THEN REJECTED
    ELSE ""

\* The texts h sent, or is sending, as the result of the agent's decision.
ResultTexts(h) ==
    {h.ev[i].text : i \in {j \in 1..Len(h.ev) : h.ev[j].op = "send" /\ h.ev[j].at = "hc_result"}}
        \cup (IF h.pc = "hc_result" THEN {h.out} ELSE {})

\* The accept path of step h.cfg has run on the session that h started with.
AcceptPathRan(h, s) ==
    /\ h.cfg # 5 => s.stepIndex = h.cfg + 1
    /\ h.cfg = 5 => Len(Events(h, "pdf")) = 1 /\ s.stepIndex \in {6, 7}
    /\ s.passportData = h.s0.passportData
    /\ s.driversIdData = h.s0.driversIdData

\* The reject path of step h.cfg has run on the session that h started with.
RejectPathRan(h, s) ==
    /\ h.cfg = 2 => s.stepIndex = 1 /\ s.passportData = Null
                       /\ s.driversIdData = h.s0.driversIdData
    /\ h.cfg = 4 => s.stepIndex = 3 /\ s.driversIdData = Null
                       /\ s.passportData = h.s0.passportData
    /\ h.cfg = 5 => s.stepIndex = 5 /\ s.passportData = h.s0.passportData
                       /\ s.driversIdData = h.s0.driversIdData
    /\ Events(h, "pdf") = <<>>

(***************************************************************************)
(* C12.  For every agent reply at a confirmation step that ends with       *)
(* [CONFIRMED] (resp. [REJECTED]): the text sent to the user contains no   *)
(* marker, that text is appended to the transcript, and the accept (resp.  *)
(* reject) path of the step runs exactly once.                             *)
(***************************************************************************)
C12_DecisionReplyStrippedAndApplied ==
    \A p \in HandlerSlots :
        LET h == Handler(p)
            s == Session(p[1])
        IN (IsConfirmationText(h) /\ TransportWorked(h) /\ DecisionOf(h) # "")
              => /\ \A text \in ResultTexts(h) : NoDecisionMarker(text)
                 /\ h.pc = "done"
                       => /\ Cardinality(ResultTexts(h)) = 1
                          /\ \E i \in 1..Len(s.conversation) :
                                /\ s.conversation[i].role = "assistant"
                                /\ s.conversation[i].text \in ResultTexts(h)
                                /\ i > Len(h.s0.conversation)
                          /\ DecisionOf(h) = CONFIRMED => AcceptPathRan(h, s)
                          /\ DecisionOf(h) = REJECTED => RejectPathRan(h, s)

IsRejection(h) ==
    /\ IsConfirmationText(h)
    /\ Completed(h)
    /\ \/ DecisionOf(h) = REJECTED
       \/ Raised(h, "agent") /\ AgentReplied(h) = <<>> /\ TextOf(h.msg) = TextNo

IsAcceptance(h) ==
    /\ IsConfirmationText(h)
    /\ TransportWorked(h)
    /\ \/ DecisionOf(h) = CONFIRMED
       \/ Raised(h, "agent") /\ AgentReplied(h) = <<>>
             /\ TextOf(h.msg) \in {TextYes, TextYesPadded}

(***************************************************************************)
(* C15.  Accepting at confirming_price advances the step to sending_policy *)
(* and, within the handling of that same message, starts generating and    *)
(* sending the policy; when generation and sending succeed the session     *)
(* ends that message in completed.                                         *)
(***************************************************************************)
C15_AcceptedPriceDeliversPolicy ==
    \A p \in HandlerSlots :
        LET h == Handler(p)
            s == Session(p[1])
        IN (IsAcceptance(h) /\ h.cfg = 5)
              => /\ h.pc = "sp_pdf" => StepName(s.stepIndex) = "sending_policy"
                 /\ h.pc = "sp_sendDoc"
                       => StepName(s.stepIndex) = "sending_policy" /\ Succeeded(h, "pdf")
                 /\ h.pc = "done"
                       => /\ Len(Events(h, "pdf")) = 1
                          /\ Succeeded(h, "pdf") => Len(Events(h, "sendDocument")) = 1
                          /\ (Succeeded(h, "pdf") /\ Succeeded(h, "sendDocument"))
                                => StepName(s.stepIndex) = "completed"
                          /\ ~(Succeeded(h, "pdf") /\ Succeeded(h, "sendDocument"))
                                => StepName(s.stepIndex) = "sending_policy"

\* The agent confirmed the price, the policy was generated and sent.
C15_Witness ==
    \E p \in HandlerSlots :
        LET h == Handler(p)
        IN /\ IsAcceptance(h) /\ h.cfg = 5 /\ h.pc = "done"
           /\ DecisionOf(h) = CONFIRMED
           /\ Succeeded(h, "pdf") /\ Succeeded(h, "sendDocument")
           /\ StepName(Session(p[1]).stepIndex) = "completed"

(***************************************************************************)
(* C16.  completed is terminal: the handling of a message that found the   *)
(* session at completed leaves it at completed, whatever the content type  *)
(* and whatever the collaborators return; a text or command there only     *)
(* sends the closing acknowledgment and changes nothing in the session.    *)
(***************************************************************************)
C16_CompletedIsTerminal ==
    \A p \in HandlerSlots :
        LET h == Handler(p)
            s == Session(p[1])
        IN (h.pc # "idle" /\ StepName(h.cfg) = "completed")
              => /\ StepName(s.stepIndex) = "completed"
                 /\ s = h.s0
                 /\ Events(h, "agent") = <<>> /\ Events(h, "pdf") = <<>>
                 /\ (getContentType(h.msg) \in {"text", "command"} /\ Completed(h))
                       => /\ Len(Delivered(h)) = 1
                          /\ Delivered(h)[1].text = ThanksMessage

\* A "/start" command sent after completion was answered with the acknowledgment.
C16_Witness ==
    \E p \in HandlerSlots :
        LET h == Handler(p)
        IN /\ StepName(h.cfg) = "completed" /\ Completed(h)
           /\ getContentType(h.msg) = "command"
           /\ Len(Delivered(h)) = 1
           /\ StepName(Session(p[1]).stepIndex) = "completed"

(***************************************************************************)
(* C17.  Steps are never skipped: the handling of one message changes the  *)
(* step index by -1, 0 or +1, except an accepted price confirmation whose  *)
(* policy is generated and sent, which passes through sending_policy to    *)
(* completed; confirming_driversId is entered only by the handling of a    *)
(* driver's-license submission (upload or manual text) at                  *)
(* awaiting_driversId.                                                     *)
(***************************************************************************)
C17_StepsNeverSkipped ==
    \A p \in HandlerSlots :
        LET h == Handler(p)
            s == Session(p[1])
            change == s.stepIndex - h.s0.stepIndex
        IN h.pc # "idle"
              => /\ \/ change \in {-1, 0, 1}
                    \/ /\ change = 2
                       /\ h.cfg = 5 /\ IsAcceptance(h)
                       /\ Succeeded(h, "pdf") /\ Succeeded(h, "sendDocument")
                       /\ StepName(s.stepIndex) = "completed"
                 /\ (StepName(s.stepIndex) = "confirming_driversId" /\ change # 0)
                       => /\ StepName(h.s0.stepIndex) = "awaiting_driversId"
                          /\ IsSubmission(h) \/ IsManualEntry(h)

(***************************************************************************)
(* Degraded mode: the agent and the extraction service always fail, the    *)
(* chat transport and the local PDF generation work.  The user sends up to *)
(* MaxStray arbitrary messages at arbitrary moments and otherwise what the *)
(* bot asked for last.                                                     *)
(***************************************************************************)

\* What a cooperating user sends at the step of session s.
CooperatingMessage(s) ==
    CASE s.stepIndex = 0 -> Msg(<<>>, <<>>, << <<"bot_command">> >>, <<TextStart>>)
      [] s.stepIndex \in {1, 3} ->
            IF Truthy(s.awaitingManualInput)
            THEN Msg(<<>>, <<>>, << <<"bold", "bot_command">> >>, <<TextMaybe>>)
            ELSE Msg(<< <<1024, MAX_FILE_SIZE>> >>, <<>>, <<>>, <<>>)
      [] OTHER -> Msg(<<>>, <<>>, <<>>, <<TextYes>>)

Cooperate(u) ==
    /\ u \in SerialUsers
    /\ \A k \in Slots : ~InFlight(handlers[u][k])
    /\ StepName(get(u).stepIndex) # "completed"
    /\ Begin(u, 1, CooperatingMessage(get(u)))
    /\ UNCHANGED delivered

\* What the user sends out of turn: a command, an upload, an oversized file, "no",
\* a remark, a sticker.
StrayMessages ==
    { Msg(<<>>, <<>>, << <<"bot_command">> >>, <<TextStart>>),
      Msg(<< <<1024, MAX_FILE_SIZE>> >>, <<>>, <<>>, <<>>),
      Msg(<<>>, <<Doc("application/pdf", MAX_FILE_SIZE + 1)>>, <<>>, <<>>),
      Msg(<<>>, <<>>, <<>>, <<TextNo>>),
      Msg(<<>>, <<>>, << <<"bold", "bot_command">> >>, <<TextMaybe>>),
      Msg(<<>>, <<>>, <<>>, <<>>) }

Stray(u, m) ==
    /\ u \in SerialUsers
    /\ \A k \in Slots : ~InFlight(handlers[u][k])
    /\ delivered < MaxStray
    /\ Begin(u, 1, m)
    /\ delivered' = delivered + 1

\* The collaborators in degraded mode.
ResumeDegraded ==
    \E u \in Users, k \in Slots :
        \/ SendReturns(u, k, TRUE)
        \/ GetFileReturns(u, k, TRUE)
        \/ AgentRaises(u, k)
        \/ ExtractReturns(u, k, FALSE)
        \/ PdfReturns(u, k, TRUE)
        \/ SendDocumentReturns(u, k, TRUE)

NextDegraded ==
    \/ \E u \in Users, m \in StrayMessages : Stray(u, m)
    \/ \E u \in Users : Cooperate(u)
    \/ ResumeDegraded

\* The user does send the next message and pending calls do return.
SpecDegraded ==
    /\ Init
    /\ [][NextDegraded]_vars
    /\ WF_vars(\E u \in Users : Cooperate(u))
    /\ WF_vars(ResumeDegraded)

(***************************************************************************)
(* C18.  Forward progress in degraded mode: with the agent and the         *)
(* extraction service permanently failing and the transport working, a     *)
(* cooperating user is led to completed, from the start and from every     *)
(* state that messages out of turn have led to.                            *)
(***************************************************************************)
C18_DegradedModeReachesCompleted ==
    <>[](\A u \in SerialUsers :
            sessions[u].exists /\ StepName(Session(u).stepIndex) = "completed")

\* The session completed with both documents typed in by the user.
C18_Witness ==
    \E u \in SerialUsers :
        /\ sessions[u].exists
        /\ StepName(Session(u).stepIndex) = "completed"
        /\ Session(u).passportData.k = "raw"
        /\ Session(u).driversIdData.k = "raw"
        /\ Session(u).awaitingManualInput = "false"

\* Handler k of user u starts in this step.
Begins(u, k) ==
    /\ ~InFlight(handlers[u][k])
    /\ handlers'[u][k] # handlers[u][k]

(***************************************************************************)
(* C19.  The session store holds one session per user id: the first        *)
(* get(id) creates a session at step start with no document data and an    *)
(* empty transcript, every later get(id) returns the stored session (also  *)
(* when two handlers of a new id run concurrently), and a session is       *)
(* never removed.                                                          *)
(***************************************************************************)
C19_OneSessionPerUser ==
    [][\A u \in Users :
          /\ sessions[u].exists => sessions'[u].exists
          /\ \A k \in Slots :
                Begins(u, k)
                   => /\ sessions'[u].exists
                      /\ sessions[u].exists => handlers'[u][k].s0 = sessions[u].s
                      /\ ~sessions[u].exists
                            => /\ StepName(handlers'[u][k].s0.stepIndex) = "start"
                               /\ handlers'[u][k].s0.conversation = <<>>
                               /\ ~Present(handlers'[u][k].s0.passportData)
                               /\ ~Present(handlers'[u][k].s0.driversIdData)
                               /\ ~Truthy(handlers'[u][k].s0.awaitingManualInput)]_vars

\* Two handlers of one new user are in flight on the one session the first created.
C19_Witness ==
    \E u \in Users :
        /\ \A k \in Slots : InFlight(handlers[u][k]) /\ handlers[u][k].s0.stepIndex = 0
        /\ sessions[u].exists
        /\ handlers[u][2].s0 = handlers[u][1].s0

(***************************************************************************)
(* C20.  Sessions of different users are independent: a step in which no   *)
(* handler of user B takes part (the handling of another user's message,   *)
(* the agent's extraction tool included) leaves B's session as it is.      *)
(***************************************************************************)
C20_SessionsIndependent ==
    [][\A v \in Users : handlers'[v] = handlers[v] => sessions'[v] = sessions[v]]_vars

\* The first place of the code h suspended at.
FirstPlace(h) == IF h.ev = <<>> THEN h.pc ELSE h.ev[1].at

\* The places the router suspends at first when it does not call the step handler.
RouterPlaces == {"g1_fallback", "g3_agent", "g3_file_fallback"}

\* The router called stepConfig.handler for the message of h.
HandlerInvoked(h) == h.pc # "idle" /\ FirstPlace(h) \notin RouterPlaces

(***************************************************************************)
(* C21.  The step's handler is invoked for a message if and only if its    *)
(* content type is not unsupported and either the step's accepted types    *)
(* include it or awaitingManualInput is set and the type is text.          *)
(***************************************************************************)
C21_HandlerInvokedIffExpected ==
    \A p \in HandlerSlots :
        LET h == Handler(p)
            type == getContentType(h.msg)
        IN h.pc # "idle"
              => (HandlerInvoked(h)
                    <=> /\ type # "unsupported"
                        /\ \/ includes(expectsContent(h.cfg), type)
                           \/ Truthy(h.s0.awaitingManualInput) /\ type = "text")

\* A text the step does not list reached the step's handler as manual input.
C21_Witness ==
    \E p \in HandlerSlots :
        /\ HandlerInvoked(Handler(p))
        /\ getContentType(Handler(p).msg) = "text"
        /\ ~includes(expectsContent(Handler(p).cfg), "text")
        /\ Handler(p).pc = "done"

\* h handles a text or a command that its step does not accept (GATE 3).
IsOffScript(h) ==
    /\ h.pc # "idle"
    /\ getContentType(h.msg) \in {"text", "command"}
    /\ ~includes(expectsContent(h.cfg), getContentType(h.msg))
    /\ ~(Truthy(h.s0.awaitingManualInput) /\ getContentType(h.msg) = "text")

\* The texts of the messages h delivered, in order.
DeliveredTexts(h) == [i \in 1..Len(Delivered(h)) |-> Delivered(h)[i].text]

\* Step, document data and flag of s equal those of t.
SameProgress(s, t) ==
    /\ s.stepIndex = t.stepIndex
    /\ s.passportData = t.passportData
    /\ s.driversIdData = t.driversIdData
    /\ s.awaitingManualInput = t.awaitingManualInput

(***************************************************************************)
(* C22.  The handling of a text or command the step does not accept leaves *)
(* the step, the document data and awaitingManualInput as they were; when  *)
(* the agent call returned, its answer is what the user gets, when it      *)
(* raised, the step's fallback message.                                    *)
(***************************************************************************)
C22_OffScriptTextChangesNoProgress ==
    \A p \in HandlerSlots :
        LET h == Handler(p)
            s == Session(p[1])
        IN (IsOffScript(h) /\ Completed(h))
              => /\ SameProgress(s, h.s0)
                 /\ Succeeded(h, "agent")
                       => DeliveredTexts(h) = <<AgentReplied(h)[1].text>>
                 /\ Raised(h, "agent")
                       => DeliveredTexts(h) = <<FallbackMessage(h.cfg)>>

\* h handles an upload at a step that accepts neither photos nor files.
IsUnexpectedUpload(h) ==
    /\ h.pc # "idle"
    /\ getContentType(h.msg) \in {"photo", "document"}
    /\ ~includes(expectsContent(h.cfg), getContentType(h.msg))

(***************************************************************************)
(* C23.  An upload at a step that does not accept it is answered with the  *)
(* step's fallback message and nothing else happens: the session (step,    *)
(* document data, flag, transcript) is as before and the only collaborator *)
(* call is that one sendMessage.                                           *)
(***************************************************************************)
C23_UnexpectedUploadOnlyFallback ==
    \A p \in HandlerSlots :
        LET h == Handler(p)
            s == Session(p[1])
        IN IsUnexpectedUpload(h)
              => /\ h.pc \in {"g3_file_fallback", "done"}
                 /\ s = h.s0
                 /\ \A i \in 1..Len(h.ev) :
                       h.ev[i].op = "send" /\ h.ev[i].text = FallbackMessage(h.cfg)
                 /\ h.pc = "done" => Len(h.ev) = 1
                 /\ Completed(h) => DeliveredTexts(h) = <<FallbackMessage(h.cfg)>>

\* A photo arrived at confirming_price and was answered.
C23_Witness ==
    \E p \in HandlerSlots :
        /\ IsUnexpectedUpload(Handler(p))
        /\ Completed(Handler(p))
        /\ getContentType(Handler(p).msg) = "photo"
        /\ StepName(Handler(p).cfg) = "confirming_price"

\* h handles a message with no photo, no file, no leading command entity and no text.
IsUnsupported(h) == h.pc # "idle" /\ getContentType(h.msg) = "unsupported"

(***************************************************************************)
(* C24.  A message classified as unsupported is answered with the step's   *)
(* "expected action" message and the session is left as it was, at every   *)
(* step and also while awaitingManualInput is set; the only collaborator   *)
(* call is that one sendMessage.                                           *)
(***************************************************************************)
C24_UnsupportedOnlyFallback ==
    \A p \in HandlerSlots :
        LET h == Handler(p)
            s == Session(p[1])
        IN IsUnsupported(h)
              => /\ h.pc \in {"g1_fallback", "done"}
                 /\ s = h.s0
                 /\ \A i \in 1..Len(h.ev) :
                       h.ev[i].op = "send" /\ h.ev[i].text = FallbackMessage(h.cfg)
                 /\ h.pc = "done" => Len(h.ev) = 1
                 /\ Completed(h)
                       => DeliveredTexts(h) = <<(<<"#sorry_cant_process", expectedAction(h.cfg)>>)>>

\* An unsupported message arrived while manual input was awaited and was answered.
C24_Witness ==
    \E p \in HandlerSlots :
        /\ IsUnsupported(Handler(p))
        /\ Completed(Handler(p))
        /\ Truthy(Handler(p).s0.awaitingManualInput)

\* The session a handler of u works on in the current state.
Current(u) == IF sessions[u].exists THEN sessions[u].s ELSE NewSession

\* The handler in slot p reaches / leaves the router's catch around the step handler.
EntersRouterCatch(p) ==
    handlers[p[1]][p[2]].pc # "h_retry" /\ handlers'[p[1]][p[2]].pc = "h_retry"

LeavesRouterCatch(p) ==
    handlers[p[1]][p[2]].pc = "h_retry" /\ handlers'[p[1]][p[2]].pc # "h_retry"

\* Everything of the two sessions except the transcript is equal.
SameButTranscript(s, t) == [s EXCEPT !.conversation = <<>>] = [t EXCEPT !.conversation = <<>>]

(***************************************************************************)
(* C25.  When a step handler throws, the router's catch sends the retry    *)
(* prompt listing the step's accepted content types and touches the        *)
(* session no more: neither the step taking the handler into the catch nor *)
(* the return of that sendMessage changes the session, and the handler is  *)
(* finished after it.                                                      *)
(***************************************************************************)
C25_RouterCatchLeavesSessionAsIs ==
    [][\A p \in HandlerSlots :
          /\ EntersRouterCatch(p)
                => /\ sessions'[p[1]].s = Current(p[1])
                   /\ handlers'[p[1]][p[2]].out =
                         <<"#please_send">> \o expectsContent(handlers'[p[1]][p[2]].cfg)
          /\ LeavesRouterCatch(p)
                => /\ sessions'[p[1]].s = Current(p[1])
                   /\ handlers'[p[1]][p[2]].pc = "done"]_vars

\* The echo of a manual entry could not be sent: the retry prompt went out, and the
\* raw text and the cleared flag the handler had written are still in the session.
C25_Witness ==
    \E p \in HandlerSlots :
        LET h == Handler(p)
        IN /\ h.pc = "done"
           /\ SentAt(h, "h_retry")
           /\ h.ev[Len(h.ev)].ok
           /\ ~SameButTranscript(Session(p[1]), h.s0)

\* The awaits of the code: a handler in flight is suspended at one of them.
AwaitPlaces == SendPcs \cup AgentPcs \cup {"pd_getFile", "pd_extract", "sp_pdf", "sp_sendDoc"}

\* No await of the code returned twice to h (the agent's tool runs inside the agent call).
NoPlaceTwice(h) ==
    \A i, j \in 1..Len(h.ev) :
        (i # j /\ h.ev[i].at = h.ev[j].at) => h.ev[i].op # h.ev[j].op

(***************************************************************************)
(* C26.  The entry point never propagates a failure: whatever the message  *)
(* and whichever collaborator calls fail, a handler is either suspended at *)
(* one of the awaits of the code or has returned normally; no exception    *)
(* leaves it, and it passes no await twice, so it returns after finitely   *)
(* many collaborator calls.                                                *)
(***************************************************************************)
C26_EntryPointNeverPropagates ==
    \A p \in HandlerSlots :
        LET h == Handler(p)
        IN /\ h.pc \in AwaitPlaces \cup {"idle", "done"}
           /\ NoPlaceTwice(h)
           /\ h.pc = "done" => h.ev # <<>>

\* Agent, extraction and every send failed, the retry prompt of the router's catch
\* included; the top-level catch took the last failure and the handler returned.
C26_Witness ==
    \E p \in HandlerSlots :
        LET h == Handler(p)
        IN /\ h.pc = "done"
           /\ Raised(h, "agent")
           /\ Raised(h, "extract")
           /\ h.ev[Len(h.ev)].at = "h_retry"
           /\ ~h.ev[Len(h.ev)].ok

\* The sends that no inner try block encloses: a failure there goes to the top-level catch.
TopLevelPlaces == {"g1_fallback", "g3_fallback", "g3_file_fallback", "h_retry"}

\* h ended in the top-level catch of the webhook handler.
EndedInTopLevelCatch(h) ==
    /\ h.pc = "done"
    /\ h.ev # <<>>
    /\ h.ev[Len(h.ev)].op = "send"
    /\ h.ev[Len(h.ev)].at \in TopLevelPlaces
    /\ ~h.ev[Len(h.ev)].ok

(***************************************************************************)
(* C27.  When a failure reaches the top-level catch (the send of a         *)
(* fallback message or of the retry prompt failed), the user got no reply  *)
(* for the message and the session is untouched: step, document data, flag *)
(* and transcript are what they were when the message arrived.             *)
(***************************************************************************)
C27_TopLevelCatchLeavesSessionUntouched ==
    \A p \in HandlerSlots :
        LET h == Handler(p)
        IN EndedInTopLevelCatch(h)
              => /\ Session(p[1]) = h.s0
                 /\ Delivered(h) = <<>>

(***************************************************************************)
(* C28.  Manual-input acceptance is all-or-nothing: once a text taken as   *)
(* manual input has been handled, either the raw text is stored, the flag  *)
(* is cleared and the step has advanced by one, or the document data, the  *)
(* flag and the step are all as before; also when the echo of the text     *)
(* could not be sent.                                                      *)
(***************************************************************************)
C28_ManualInputAllOrNothing ==
    \A p \in HandlerSlots :
        LET h == Handler(p)
            s == Session(p[1])
        IN (IsManualEntry(h) /\ h.pc = "done")
              => \/ /\ DataFor(s, h.cfg) = Raw(TextOf(h.msg))
                    /\ s.awaitingManualInput = "false"
                    /\ s.stepIndex = h.s0.stepIndex + 1
                 \/ SameProgress(s, h.s0)

(***************************************************************************)
(* A user who follows the script but may reject what was extracted: the    *)
(* messages are /start, an upload, "yes" and "no", one at a time, and the  *)
(* transcript may hold one rejection round more than SpecSerial allows.    *)
(***************************************************************************)
RoundTripMessages ==
    { Msg(<<>>, <<>>, << <<"bot_command">> >>, <<TextStart>>),
      Msg(<< <<1024, MAX_FILE_SIZE>> >>, <<>>, <<>>, <<>>),
      Msg(<<>>, <<>>, <<>>, <<TextYes>>),
      Msg(<<>>, <<>>, <<>>, <<TextNo>>) }

DeliverRoundTrip(u, m) ==
    /\ u \in SerialUsers
    /\ \A k \in Slots : ~InFlight(handlers[u][k])
    /\ Len(get(u).conversation) <= MinConv(get(u).stepIndex) + MaxDetour + 1
    /\ ~OffScript(get(u), m)
    /\ Begin(u, 1, m)
    /\ UNCHANGED delivered

NextRoundTrip ==
    \/ \E u \in Users, m \in RoundTripMessages : DeliverRoundTrip(u, m)
    \/ Resume
    \/ ResumePolicy

SpecRoundTrip == Init /\ [][NextRoundTrip]_vars

\* The transcript records that the passport data was rejected at confirming_passport.
PassportWasRejected(s) ==
    \E i \in 1..Len(s.conversation) :
        /\ s.conversation[i].role = "assistant"
        /\ s.conversation[i].text = getMessagesForStep(2).retryMessage

HasPhoto(m) == m.photo # <<>>
HasFile(m) == m.document # <<>>
LeadsWithCommand(m) ==
    m.entities # <<>> /\ m.entities[1] # <<>> /\ Head(m.entities[1]) = "bot_command"
HasText(m) == m.text # <<>> /\ m.text[1] # <<>>

(***************************************************************************)
(* C30.  Every inbound message is classified as exactly one of photo,      *)
(* document, command, text, unsupported, with the precedence photo         *)
(* attachment > file attachment > first entity is a bot command > text     *)
(* present > unsupported.                                                  *)
(***************************************************************************)
C30_ClassificationPrecedence ==
    \A p \in HandlerSlots :
        LET m == Handler(p).msg
            type == getContentType(m)
        IN Handler(p).pc # "idle"
              => /\ type \in {"photo", "document", "command", "text", "unsupported"}
                 /\ type = "photo" <=> HasPhoto(m)
                 /\ type = "document" <=> ~HasPhoto(m) /\ HasFile(m)
                 /\ type = "command" <=> ~HasPhoto(m) /\ ~HasFile(m) /\ LeadsWithCommand(m)
                 /\ type = "text"
                       <=> ~HasPhoto(m) /\ ~HasFile(m) /\ ~LeadsWithCommand(m) /\ HasText(m)
                 /\ type = "unsupported"
                       <=> ~HasPhoto(m) /\ ~HasFile(m) /\ ~LeadsWithCommand(m) /\ ~HasText(m)

\* A photo whose caption starts with a command was handled as a photo: at
\* awaiting_passport it went to the document pipeline, which answered it.
C30_Witness ==
    \E p \in HandlerSlots :
        LET h == Handler(p)
        IN /\ HasPhoto(h.msg) /\ LeadsWithCommand(h.msg)
           /\ getContentType(h.msg) = "photo"
           /\ StepName(h.cfg) = "awaiting_passport"
           /\ Completed(h)
           /\ SentAt(h, "pd_error")

\* The transcript of u before and after a step.
TranscriptBefore(u) == Current(u).conversation
TranscriptAfter(u) == sessions'[u].s.conversation

\* A call of kind op returned to the handler in slot k of u in this step, with result ok.
Returned(u, k, op, ok) ==
    /\ Len(handlers'[u][k].ev) = Len(handlers[u][k].ev) + 1
    /\ handlers'[u][k].ev[Len(handlers'[u][k].ev)].op = op
    /\ handlers'[u][k].ev[Len(handlers'[u][k].ev)].ok = ok

\* seq starts with the entries of pre, in their order.
StartsWith(seq, pre) == Len(pre) <= Len(seq) /\ SubSeq(seq, 1, Len(pre)) = pre

(***************************************************************************)
(* C31.  The transcript changes only by one entry appended at its end or   *)
(* by being replaced with the history a successful agent call returned; no *)
(* step removes or reorders entries that were in it, and an agent call     *)
(* that raises leaves it as it was.                                        *)
(***************************************************************************)
C31_TranscriptAppendOrReplace ==
    [][\A u \in Users :
          /\ StartsWith(TranscriptAfter(u), TranscriptBefore(u))
          /\ \/ Len(TranscriptAfter(u)) <= Len(TranscriptBefore(u)) + 1
             \/ \E k \in Slots : Returned(u, k, "agent", TRUE)
          /\ (\E k \in Slots : Returned(u, k, "agent", FALSE))
                => TranscriptAfter(u) = TranscriptBefore(u)]_vars

\* The sends of processDocument that tell the user the outcome of a submission: the
\* agent's reply (with or without failure marker), the summary, the apology.
OutcomePlaces == {"pd_failed", "pd_reply", "pd_summary", "pd_apology"}

\* The positions in the event list of h of the events with operation op.
PositionsOf(h, op) == {i \in 1..Len(h.ev) : h.ev[i].op = op}

\* The messages of h that reached the user from one of the given places.
DeliveredFrom(h, places) ==
    SelectSeq(h.ev, LAMBDA e : e.op = "send" /\ e.ok /\ e.at \in places)

(***************************************************************************)
(* C32.  The processing-started acknowledgment is sent only after the file *)
(* URL was resolved and before the agent is called, and stays sent when    *)
(* later tiers fail: a submission that passed validation, the transport    *)
(* working, yields the acknowledgment followed by exactly one outcome      *)
(* message (agent reply, summary, or apology).                             *)
(***************************************************************************)
C32_AcknowledgmentThenOneOutcome ==
    \A p \in HandlerSlots :
        LET h == Handler(p)
        IN IsSubmission(h)
              => /\ SentAt(h, "pd_processing")
                       => /\ h.ev[1].op = "getFile" /\ h.ev[1].ok
                          /\ h.ev[2].op = "send" /\ h.ev[2].at = "pd_processing"
                          /\ \A i \in PositionsOf(h, "agent") \cup PositionsOf(h, "tool")
                                      \cup PositionsOf(h, "extract") : i > 2
                 /\ (PositionsOf(h, "agent") # {} \/ h.pc = "pd_agent")
                       => Len(DeliveredFrom(h, {"pd_processing"})) = 1
                 /\ Len(DeliveredFrom(h, OutcomePlaces)) <= 1
                 /\ (Completed(h) /\ Succeeded(h, "getFile"))
                       => /\ Len(Delivered(h)) = 2
                          /\ Delivered(h)[1].text = ProcessingMessage
                          /\ Delivered(h)[2].at \in OutcomePlaces

\* Agent and extraction failed after the acknowledgment; the user has the
\* acknowledgment and the apology.
C32_Witness ==
    \E p \in HandlerSlots :
        LET h == Handler(p)
        IN /\ IsSubmission(h)
           /\ Completed(h)
           /\ Raised(h, "agent")
           /\ Raised(h, "extract")
           /\ DeliveredTexts(h) = <<ProcessingMessage, ApologyMessage(documentType(h.cfg))>>

(***************************************************************************)
(* The deployed program late in the flow: the user follows the script, one *)
(* message at a time and without a detour in the transcript, up to         *)
(* confirming_driversId; from there on the answers "yes" and "no" are      *)
(* handled as they arrive, concurrently, as in Spec.                       *)
(***************************************************************************)
\* The two answers to a confirmation question.
AnswerMessages == {Msg(<<>>, <<>>, <<>>, <<TextYes>>), Msg(<<>>, <<>>, <<>>, <<TextNo>>)}

BeforeLateSteps(s) ==
    StepName(s.stepIndex) \in
        {"start", "awaiting_passport", "confirming_passport", "awaiting_driversId"}

DeliverLate(u, m) ==
    /\ u \in SerialUsers
    /\ IF BeforeLateSteps(get(u))
       THEN /\ \A k \in Slots : ~InFlight(handlers[u][k])
            /\ Len(get(u).conversation) <= MinConv(get(u).stepIndex)
            /\ m = CooperatingMessage(get(u))
            /\ Begin(u, 1, m)
            /\ UNCHANGED delivered
       ELSE /\ m \in AnswerMessages
            /\ Deliver(u, m)

LateMessages ==
    AnswerMessages
       \cup {CooperatingMessage([NewSession EXCEPT !.stepIndex = i, !.awaitingManualInput = f]) :
                 i \in 0..3, f \in {"undefined", "true"}}

NextLateRace ==
    \/ \E u \in Users, m \in LateMessages : DeliverLate(u, m)
    \/ Resume
    \/ ResumePolicy

SpecLateRace == Init /\ [][NextLateRace]_vars

\* The handler in slot k of u finishes in this step.
Finishes(u, k) == InFlight(handlers[u][k]) /\ handlers'[u][k].pc = "done"

(***************************************************************************)
(* C33.  A rejection at confirming_price leaves the step at                *)
(* confirming_price, and from confirming_price onwards the step index      *)
(* never decreases: the session does not return to a document step.        *)
(***************************************************************************)
C33_NoWayBackFromPrice ==
    [][\A u \in Users :
          /\ Current(u).stepIndex >= 5 => sessions'[u].s.stepIndex >= Current(u).stepIndex
          /\ \A k \in Slots :
                (Finishes(u, k) /\ handlers'[u][k].cfg = 5 /\ IsRejection(handlers'[u][k]))
                   => sessions'[u].s.stepIndex = Current(u).stepIndex]_vars

(***************************************************************************)
(* The deployed program at the end of the flow: the user follows the       *)
(* script, one message at a time and without a detour in the transcript,   *)
(* up to the price; from confirming_price on the answers "yes" and "no"    *)
(* are handled as they arrive, concurrently, as in Spec.                   *)
(***************************************************************************)
BeforePriceSteps(s) == BeforeLateSteps(s) \/ StepName(s.stepIndex) = "confirming_driversId"

DeliverAtPrice(u, m) ==
    /\ u \in SerialUsers
    /\ IF BeforePriceSteps(get(u))
       THEN /\ \A k \in Slots : ~InFlight(handlers[u][k])
            /\ Len(get(u).conversation) <= MinConv(get(u).stepIndex)
            /\ m = CooperatingMessage(get(u))
            /\ Begin(u, 1, m)
            /\ UNCHANGED delivered
       ELSE /\ m \in AnswerMessages
            /\ Deliver(u, m)

NextPriceRace ==
    \/ \E u \in Users, m \in LateMessages : DeliverAtPrice(u, m)
    \/ Resume
    \/ ResumePolicy

SpecPriceRace == Init /\ [][NextPriceRace]_vars

(***************************************************************************)
(* C34.  When generating or sending the policy fails, the session stays at *)
(* sending_policy and the user gets the error message; a later text at     *)
(* sending_policy runs the generation again; a policy document that was    *)
(* sent takes the session from sending_policy to completed, so that no     *)
(* document is sent without such a transition.                             *)
(***************************************************************************)
C34_PolicyFailureStaysAndRetries ==
    [][\A u \in Users : \A k \in Slots :
          /\ (Returned(u, k, "pdf", FALSE) \/ Returned(u, k, "sendDocument", FALSE))
                => /\ StepName(Current(u).stepIndex) = "sending_policy"
                   /\ sessions'[u].s = Current(u)
                   /\ handlers'[u][k].pc = "sp_error"
                   /\ handlers'[u][k].out = PolicyErrorMessage
          /\ (Begins(u, k) /\ StepName(handlers'[u][k].cfg) = "sending_policy"
                /\ getContentType(handlers'[u][k].msg) = "text")
                => handlers'[u][k].pc = "sp_pdf"
          /\ Returned(u, k, "sendDocument", TRUE)
                => /\ StepName(Current(u).stepIndex) = "sending_policy"
                   /\ StepName(sessions'[u].s.stepIndex) = "completed"]_vars

\* h put something into the chat: a message or the policy document.
HasOutbound(h) == Len(Delivered(h)) >= 1 \/ Succeeded(h, "sendDocument")

(***************************************************************************)
(* C35.  While sendMessage works, the handling of every inbound message    *)
(* puts at least one outbound message into the chat, at every step, for    *)
(* every content type and whatever the agent, the extraction service and   *)
(* the policy generation do: no message is handled without a reply.        *)
(***************************************************************************)
C35_EveryMessageAnswered ==
    \A p \in HandlerSlots :
        LET h == Handler(p)
        IN Completed(h) => HasOutbound(h)

\* An unsupported message at sending_policy was answered with the fallback text.
C35_Witness ==
    \E p \in HandlerSlots :
        LET h == Handler(p)
        IN /\ Completed(h)
           /\ StepName(h.cfg) = "sending_policy"
           /\ getContentType(h.msg) = "unsupported"
           /\ DeliveredTexts(h) = <<FallbackMessage(h.cfg)>>

(***************************************************************************)
(* The serial program with collaborators that answer: every pending call   *)
(* returns or raises at some time.                                         *)
(***************************************************************************)
SpecSerialFair ==
    /\ Init
    /\ [][NextSerial]_vars
    /\ WF_vars(Resume)
    /\ WF_vars(ResumePolicy)

\* The number of calls of kind op that returned to h.
Calls(h, op) == Cardinality(PositionsOf(h, op))

(***************************************************************************)
(* C36.  Handling one inbound message terminates once its collaborator     *)
(* calls return or raise, and makes at most one agent call and at most one *)
(* direct extraction call: no tier runs twice in one invocation.           *)
(***************************************************************************)
C36_TerminatesWithOneCallPerTier ==
    /\ [](\A p \in HandlerSlots :
             /\ Calls(Handler(p), "agent") <= 1
             /\ Calls(Handler(p), "tool") <= 1
             /\ Calls(Handler(p), "extract") <= 1)
    /\ (\E p \in HandlerSlots : InFlight(Handler(p)))
          ~> (\A p \in HandlerSlots : ~InFlight(Handler(p)))

\* A submission went through all three tiers, each once, and returned.
C36_Witness ==
    \E p \in HandlerSlots :
        LET h == Handler(p)
        IN /\ h.pc = "done"
           /\ IsSubmission(h)
           /\ Calls(h, "agent") = 1
           /\ Calls(h, "tool") = 1
           /\ Calls(h, "extract") = 1
           /\ SentAt(h, "pd_apology")

(***************************************************************************)
(* C37.  At step start only a command advances the session: a command that *)
(* arrives at start is answered with the welcome message and, once that is *)
(* sent, the session is at awaiting_passport; the handling of a text, a     *)
(* photo, a document or unsupported content that arrives at start never    *)
(* changes the step.                                                       *)
(***************************************************************************)
C37_OnlyCommandLeavesStart ==
    [][\A u \in Users : \A k \in Slots :
          LET h == handlers[u][k]
              after == handlers'[u][k]
              atStart == after # h /\ StepName(after.cfg) = "start"
              isCommand == getContentType(after.msg) = "command"
              welcomed == Returned(u, k, "send", TRUE) /\ h.pc = "start_welcome"
          IN /\ (Begins(u, k) /\ atStart /\ isCommand)
                   => after.pc = "start_welcome" /\ after.out = WelcomeMessage
             /\ (atStart /\ ~isCommand)
                   => sessions'[u].s.stepIndex = Current(u).stepIndex
             /\ (atStart /\ isCommand /\ ~welcomed)
                   => sessions'[u].s.stepIndex = Current(u).stepIndex
             /\ welcomed => StepName(sessions'[u].s.stepIndex) = "awaiting_passport"]_vars

====
